---------------------------- MODULE Spec2Model ----------------------------
(***************************************************************************)
(* CosmicPanel daemon bootstrap: package config (src/config/config.go)    *)
(* and the entrypoint main (src/cosmicpanel.go).                          *)
(*                                                                         *)
(* Files are sequences of characters.  yaml.Marshal, os.File.Write,       *)
(* os.ExpandEnv and yaml.Unmarshal are modelled on those characters, for  *)
(* the block-mapping subset of YAML that the Configuration struct uses.   *)
(***************************************************************************)
EXTENDS Integers, Sequences, FiniteSets, TLC

(***************************************************************************)
(* Text: a sequence of one-character strings.                             *)
(***************************************************************************)
NL == "\n"
SP == " "
Colon == ":"
Hash == "#"
Quote == "\""
Dollar == "$"
LBrace == "{"
RBrace == "}"

DigitChars == <<"0", "1", "2", "3", "4", "5", "6", "7", "8", "9">>
AlphaNumChars ==
    { "a","b","c","d","e","f","g","h","i","j","k","l","m","n","o","p","q","r",
      "s","t","u","v","w","x","y","z","A","B","C","D","E","F","G","H","I","J",
      "K","L","M","N","O","P","Q","R","S","T","U","V","W","X","Y","Z","0","1",
      "2","3","4","5","6","7","8","9","_" }

\* yaml.v2 lowercases the Go field names of the structs (config.go:29-68).
KeyDebug == <<"d", "e", "b", "u", "g">>
KeySystem == <<"s", "y", "s", "t", "e", "m">>
KeyData == <<"d", "a", "t", "a">>
KeyUsername == <<"u", "s", "e", "r", "n", "a", "m", "e">>
KeyUser == <<"u", "s", "e", "r">>
KeyUid == <<"u", "i", "d">>
KeyGid == <<"g", "i", "d">>
KeyPanel == <<"p", "a", "n", "e", "l">>
KeyPort == <<"p", "o", "r", "t">>
KeyLicense == <<"l", "i", "c", "e", "n", "s", "e">>
KeyValidLicense == <<"v", "a", "l", "i", "d", "l", "i", "c", "e", "n", "s", "e">>
KeyLicenseType == <<"l", "i", "c", "e", "n", "s", "e", "t", "y", "p", "e">>

\* The scalar words yaml.v2 resolves to bool and to null.
YamlTrue == <<"t", "r", "u", "e">>
YamlFalse == <<"f", "a", "l", "s", "e">>
YamlNull == <<"n", "u", "l", "l">>
YamlTrueWords ==
    { <<"y">>, <<"Y">>, <<"y","e","s">>, <<"Y","e","s">>, <<"Y","E","S">>,
      <<"t","r","u","e">>, <<"T","r","u","e">>, <<"T","R","U","E">>,
      <<"o","n">>, <<"O","n">>, <<"O","N">> }
YamlFalseWords ==
    { <<"n">>, <<"N">>, <<"n","o">>, <<"N","o">>, <<"N","O">>,
      <<"f","a","l","s","e">>, <<"F","a","l","s","e">>, <<"F","A","L","S","E">>,
      <<"o","f","f">>, <<"O","f","f">>, <<"O","F","F">> }
YamlNullWords ==
    { <<>>, <<"~">>, <<"n","u","l","l">>, <<"N","u","l","l">>, <<"N","U","L","L">> }

(***************************************************************************)
(* Integers as text: strconv.Itoa / strconv.Atoi, and yaml's int scalars. *)
(***************************************************************************)
IsDigit(ch) == \E d \in 1..10 : DigitChars[d] = ch
DigitValue(ch) == (CHOOSE d \in 1..10 : DigitChars[d] = ch) - 1
IsNumber(t) == Len(t) > 0 /\ \A i \in 1..Len(t) : IsDigit(t[i])

RECURSIVE Itoa(_)
Itoa(n) ==
    IF n < 10 THEN <<DigitChars[n + 1]>>
    ELSE Itoa(n \div 10) \o <<DigitChars[(n % 10) + 1]>>

RECURSIVE DigitsValue(_, _)
DigitsValue(t, base) ==
    IF Len(t) = 0 THEN 0
    ELSE DigitsValue(SubSeq(t, 1, Len(t) - 1), base) * base + DigitValue(t[Len(t)])

\* uid, _ := strconv.Atoi(u.Uid): the error is dropped, the value is 0 then.
Atoi(t) == IF IsNumber(t) THEN DigitsValue(t, 10) ELSE 0

\* yaml.v2 resolves a plain scalar of digits with strconv.ParseInt(s, 0, 64):
\* a leading 0 makes it octal; digits that are not octal resolve as a float
\* with an integral value, which an int field accepts.
IsOctal(t) == Len(t) > 1 /\ t[1] = "0" /\ \A i \in 1..Len(t) : DigitValue(t[i]) < 8
YamlInt(t) == IF IsOctal(t) THEN DigitsValue(t, 8) ELSE DigitsValue(t, 10)

(***************************************************************************)
(* The Configuration struct (config.go:29-68).  A pointer field is a      *)
(* sequence: <<>> is nil, <<r>> points to r.                              *)
(***************************************************************************)
ZeroSystem == [Data |-> <<>>, Username |-> <<>>, Uid |-> 0, Gid |-> 0]
ZeroPanel == [Port |-> 0]
ZeroLicense == [ValidLicense |-> FALSE, LicenseType |-> 0]
ZeroConfiguration ==
    [Debug |-> FALSE, System |-> <<>>, Panel |-> <<>>, License |-> <<>>]

(***************************************************************************)
(* yaml.Marshal(&c) (config.go:165).                                      *)
(***************************************************************************)
RECURSIVE Spaces(_)
Spaces(n) == IF n = 0 THEN <<>> ELSE <<SP>> \o Spaces(n - 1)

BoolText(b) == IF b THEN YamlTrue ELSE YamlFalse

\* A string is emitted plain unless it would resolve to another type.
NeedsQuotes(s) ==
    s \in YamlNullWords \/ s \in YamlTrueWords \/ s \in YamlFalseWords \/ IsNumber(s)
StrText(s) == IF NeedsQuotes(s) THEN <<Quote>> \o s \o <<Quote>> ELSE s

KeyLine(indent, key) == Spaces(indent) \o key \o <<Colon, NL>>
ScalarLine(indent, key, val) ==
    Spaces(indent) \o key \o <<Colon, SP>> \o val \o <<NL>>

MarshalSystem(p) ==
    IF p = <<>> THEN ScalarLine(0, KeySystem, YamlNull)
    ELSE KeyLine(0, KeySystem)
         \o ScalarLine(2, KeyData, StrText(p[1].Data))
         \o ScalarLine(2, KeyUsername, StrText(p[1].Username))
         \o KeyLine(2, KeyUser)
         \o ScalarLine(4, KeyUid, Itoa(p[1].Uid))
         \o ScalarLine(4, KeyGid, Itoa(p[1].Gid))

MarshalPanel(p) ==
    IF p = <<>> THEN ScalarLine(0, KeyPanel, YamlNull)
    ELSE KeyLine(0, KeyPanel) \o ScalarLine(2, KeyPort, Itoa(p[1].Port))

MarshalLicense(p) ==
    IF p = <<>> THEN ScalarLine(0, KeyLicense, YamlNull)
    ELSE KeyLine(0, KeyLicense)
         \o ScalarLine(2, KeyValidLicense, BoolText(p[1].ValidLicense))
         \o ScalarLine(2, KeyLicenseType, Itoa(p[1].LicenseType))

Marshal(c) ==
    ScalarLine(0, KeyDebug, BoolText(c.Debug))
    \o MarshalSystem(c.System) \o MarshalPanel(c.Panel) \o MarshalLicense(c.License)

(***************************************************************************)
(* os.ExpandEnv (config.go:103): $NAME and ${NAME} are replaced by the    *)
(* value of NAME in the environment, an unset NAME by the empty string.   *)
(***************************************************************************)
ShellSpecialChars == {"*", "#", "$", "@", "!", "?", "-"} \cup {DigitChars[d] : d \in 1..10}

\* The least element of a non-empty set of numbers.
Least(S) == CHOOSE x \in S : \A y \in S : x <= y

\* getShellName: the name that follows a $, and how many characters it takes.
GetShellName(s) ==
    IF s[1] = LBrace THEN
        IF Len(s) > 2 /\ s[2] \in ShellSpecialChars /\ s[3] = RBrace
        THEN [name |-> <<s[2]>>, w |-> 3]
        ELSE LET closes == {i \in 2..Len(s) : s[i] = RBrace}
             IN  IF closes = {} THEN [name |-> <<>>, w |-> 1]
                 ELSE IF Least(closes) = 2 THEN [name |-> <<>>, w |-> 2]
                 ELSE [name |-> SubSeq(s, 2, Least(closes) - 1), w |-> Least(closes)]
    ELSE IF s[1] \in ShellSpecialChars THEN [name |-> <<s[1]>>, w |-> 1]
    ELSE LET stops == {i \in 1..Len(s) : s[i] \notin AlphaNumChars}
             n == IF stops = {} THEN Len(s) ELSE Least(stops) - 1
         IN  [name |-> SubSeq(s, 1, n), w |-> n]

Getenv(environ, name) ==
    IF \E v \in environ : v.name = name
    THEN (CHOOSE v \in environ : v.name = name).value
    ELSE <<>>

RECURSIVE Expand(_, _)
Expand(s, environ) ==
    LET dollars == {j \in 1..(Len(s) - 1) : s[j] = Dollar}
    IN  IF dollars = {} THEN s
        ELSE LET j == Least(dollars)
                 r == GetShellName(SubSeq(s, j + 1, Len(s)))
                 sub == IF r.name = <<>> /\ r.w > 0 THEN <<>>
                        ELSE IF r.name = <<>> THEN <<Dollar>>
                        ELSE Getenv(environ, r.name)
             IN  SubSeq(s, 1, j - 1) \o sub
                 \o Expand(SubSeq(s, j + r.w + 1, Len(s)), environ)

(***************************************************************************)
(* yaml.Unmarshal(b, c) (config.go:105) into a zero Configuration, for    *)
(* block mappings of plain or double-quoted scalars, blank lines and      *)
(* whole-line comments.  Anything else is reported as a parse error.      *)
(***************************************************************************)
RECURSIVE SplitLines(_)
SplitLines(t) ==
    IF t = <<>> THEN <<>>
    ELSE LET nls == {i \in 1..Len(t) : t[i] = NL}
         IN  IF nls = {} THEN <<t>>
             ELSE <<SubSeq(t, 1, Least(nls) - 1)>>
                  \o SplitLines(SubSeq(t, Least(nls) + 1, Len(t)))

Indent(l) ==
    LET others == {i \in 1..Len(l) : l[i] # SP}
    IN  IF others = {} THEN Len(l) ELSE Least(others) - 1

BadLine(n) == [kind |-> "bad", indent |-> n, key |-> <<>>, hasval |-> FALSE, val |-> <<>>]

ParseLine(l) ==
    LET n == Indent(l)
        rest == SubSeq(l, n + 1, Len(l))
        colons == {k \in 1..Len(rest) :
                     rest[k] = Colon /\ (k = Len(rest) \/ rest[k + 1] = SP)}
    IN  IF rest = <<>> THEN [BadLine(n) EXCEPT !.kind = "blank"]
        ELSE IF rest[1] = Hash THEN [BadLine(n) EXCEPT !.kind = "comment"]
        ELSE IF colons = {} THEN BadLine(n)
        ELSE LET k == Least(colons)
                 key == SubSeq(rest, 1, k - 1)
                 val == SubSeq(rest, k + 2, Len(rest))
             IN  IF key = <<>> \/ \E i \in 1..Len(key) : key[i] \in {SP, Quote}
                 THEN BadLine(n)
                 ELSE [kind |-> "entry", indent |-> n, key |-> key,
                       hasval |-> val # <<>>, val |-> val]

IsContent(e) == e.kind \in {"entry", "bad"}
Entries(t) ==
    LET ls == SplitLines(t)
    IN  SelectSeq([i \in 1..Len(ls) |-> ParseLine(ls[i])], IsContent)

\* A scalar's resolved type, as yaml.v2's resolve() decides it.
IsQuoted(v) ==
    /\ Len(v) >= 2 /\ v[1] = Quote /\ v[Len(v)] = Quote
    /\ \A i \in 2..(Len(v) - 1) : v[i] # Quote
ScalarTag(v) ==
    IF v # <<>> /\ v[1] = Quote THEN (IF IsQuoted(v) THEN "str" ELSE "bad")
    ELSE IF v \in YamlNullWords THEN "null"
    ELSE IF v \in YamlTrueWords \/ v \in YamlFalseWords THEN "bool"
    ELSE IF IsNumber(v) THEN "int"
    ELSE "str"

DecodeErr(st) == [st EXCEPT !.err = TRUE]

\* A scalar into a bool, an int and a string field: null sets the zero value.
DecodeBool(v) ==
    CASE ScalarTag(v) = "null" -> [ok |-> TRUE, v |-> FALSE]
      [] ScalarTag(v) = "bool" -> [ok |-> TRUE, v |-> v \in YamlTrueWords]
      [] OTHER -> [ok |-> FALSE, v |-> FALSE]
DecodeInt(v) ==
    CASE ScalarTag(v) = "null" -> [ok |-> TRUE, v |-> 0]
      [] ScalarTag(v) = "int" -> [ok |-> TRUE, v |-> YamlInt(v)]
      [] OTHER -> [ok |-> FALSE, v |-> 0]
DecodeString(v) ==
    CASE ScalarTag(v) = "null" -> [ok |-> TRUE, v |-> <<>>]
      [] ScalarTag(v) = "bad" -> [ok |-> FALSE, v |-> <<>>]
      [] IsQuoted(v) -> [ok |-> TRUE, v |-> SubSeq(v, 2, Len(v) - 1)]
      [] OTHER -> [ok |-> TRUE, v |-> v]

\* One mapping entry decoded into the struct field its path names.  A key
\* that names no field is ignored, with everything below it.
SetSystemField(st, f, r) ==
    IF r.ok THEN [st EXCEPT !.c.System = <<[st.c.System[1] EXCEPT ![f] = r.v]>>]
    ELSE DecodeErr(st)
SetPanelField(st, f, r) ==
    IF r.ok THEN [st EXCEPT !.c.Panel = <<[st.c.Panel[1] EXCEPT ![f] = r.v]>>]
    ELSE DecodeErr(st)
SetLicenseField(st, f, r) ==
    IF r.ok THEN [st EXCEPT !.c.License = <<[st.c.License[1] EXCEPT ![f] = r.v]>>]
    ELSE DecodeErr(st)

\* A pointer field: a mapping allocates the struct if the pointer is nil, a
\* null scalar sets the pointer to nil, any other scalar is a type error.
DecodePointer(st, f, zero, isMap, v) ==
    IF isMap THEN (IF st.c[f] = <<>> THEN [st EXCEPT !.c[f] = <<zero>>] ELSE st)
    ELSE IF ScalarTag(v) = "null" THEN [st EXCEPT !.c[f] = <<>>]
    ELSE DecodeErr(st)

\* A scalar field given a mapping is a type error.
DecodeScalar(st, isMap, applied) == IF isMap THEN DecodeErr(st) ELSE applied

DecodeEntry(st, path, isMap, v) ==
    CASE path = <<KeyDebug>> ->
           DecodeScalar(st, isMap,
               IF DecodeBool(v).ok THEN [st EXCEPT !.c.Debug = DecodeBool(v).v]
               ELSE DecodeErr(st))
      [] path = <<KeySystem>> -> DecodePointer(st, "System", ZeroSystem, isMap, v)
      [] path = <<KeyPanel>> -> DecodePointer(st, "Panel", ZeroPanel, isMap, v)
      [] path = <<KeyLicense>> -> DecodePointer(st, "License", ZeroLicense, isMap, v)
      [] path = <<KeySystem, KeyData>> ->
           DecodeScalar(st, isMap, SetSystemField(st, "Data", DecodeString(v)))
      [] path = <<KeySystem, KeyUsername>> ->
           DecodeScalar(st, isMap, SetSystemField(st, "Username", DecodeString(v)))
      [] path = <<KeySystem, KeyUser>> ->
           IF isMap THEN st
           ELSE IF ScalarTag(v) = "null"
           THEN [st EXCEPT !.c.System =
                    <<[st.c.System[1] EXCEPT !.Uid = 0, !.Gid = 0]>>]
           ELSE DecodeErr(st)
      [] path = <<KeySystem, KeyUser, KeyUid>> ->
           DecodeScalar(st, isMap, SetSystemField(st, "Uid", DecodeInt(v)))
      [] path = <<KeySystem, KeyUser, KeyGid>> ->
           DecodeScalar(st, isMap, SetSystemField(st, "Gid", DecodeInt(v)))
      [] path = <<KeyPanel, KeyPort>> ->
           DecodeScalar(st, isMap, SetPanelField(st, "Port", DecodeInt(v)))
      [] path = <<KeyLicense, KeyValidLicense>> ->
           DecodeScalar(st, isMap, SetLicenseField(st, "ValidLicense", DecodeBool(v)))
      [] path = <<KeyLicense, KeyLicenseType>> ->
           DecodeScalar(st, isMap, SetLicenseField(st, "LicenseType", DecodeInt(v)))
      [] OTHER -> st

\* The entries in order.  lv holds the indentation of each open mapping and
\* ks the keys that lead to the innermost one.  An entry indented deeper than
\* its mapping must follow a key without a value; one indented less must
\* return to the indentation of an open mapping.
RECURSIVE Walk(_, _, _, _, _)
Walk(es, i, lv, ks, st) ==
    IF i > Len(es) \/ st.err THEN st
    ELSE LET e == es[i]
             deeper == lv # <<>> /\ e.indent > lv[Len(lv)]
             keep == Cardinality({k \in 1..Len(lv) : lv[k] <= e.indent})
             structOk ==
                 IF lv = <<>> THEN TRUE
                 ELSE IF deeper THEN ~es[i - 1].hasval
                 ELSE keep > 0 /\ lv[keep] = e.indent
             lv2 == IF lv = <<>> \/ deeper THEN lv \o <<e.indent>>
                    ELSE SubSeq(lv, 1, keep)
             ks2 == IF lv = <<>> THEN <<>>
                    ELSE IF deeper THEN ks \o <<es[i - 1].key>>
                    ELSE SubSeq(ks, 1, keep - 1)
             isMap == ~e.hasval /\ i < Len(es) /\ es[i + 1].indent > e.indent
         IN  IF ~structOk THEN DecodeErr(st)
             ELSE Walk(es, i + 1, lv2, ks2,
                       DecodeEntry(st, ks2 \o <<e.key>>, isMap, e.val))

Unmarshal(t) ==
    LET es == Entries(t)
        st0 == [err |-> FALSE, c |-> ZeroConfiguration]
    IN  IF \E i \in 1..Len(es) : es[i].kind = "bad" THEN DecodeErr(st0)
        ELSE Walk(es, 1, <<>>, <<>>, st0)

(***************************************************************************)
(* The file system: each path is a file that exists or not, with its      *)
(* bytes.  ReadConfiguration (config.go:93-110).                          *)
(***************************************************************************)
NoFile == [exists |-> FALSE, writable |-> FALSE, data |-> <<>>]
File(t) == [exists |-> TRUE, writable |-> TRUE, data |-> t]
ReadOnlyFile(t) == [exists |-> TRUE, writable |-> FALSE, data |-> t]

ReadConfiguration(files, path, environ) ==
    IF ~files[path].exists THEN DecodeErr([err |-> FALSE, c |-> ZeroConfiguration])
    ELSE Unmarshal(Expand(files[path].data, environ))

(***************************************************************************)
(* Package config: the operations on a Configuration.                     *)
(***************************************************************************)
FULL == 1
LITE == 2
DNSONLY == 3
TRIAL == 4

DefaultUsername == <<"c", "o", "s", "m", "i", "c", "p", "a", "n", "e", "l">>
DefaultData ==
    <<"/", "u", "s", "r", "/", "l", "o", "c", "a", "l", "/",
      "c", "o", "s", "m", "i", "c", "p", "a", "n", "e", "l">>
DefaultPort == 1334

\* SetDefaults (config.go:72-81): both sections are replaced.
SetDefaults(cfg) ==
    [cfg EXCEPT !.System = <<[ZeroSystem EXCEPT !.Username = DefaultUsername,
                                                !.Data = DefaultData]>>,
                !.Panel = <<[Port |-> DefaultPort]>>]

\* SetLicenseSettings (config.go:84-89): in memory only.
SetLicenseSettings(cfg, valid, licenseType) ==
    [cfg EXCEPT !.License = <<[ValidLicense |-> valid, LicenseType |-> licenseType]>>]

\* WriteToDisk opens this path, whatever path the configuration came from.
WritePath == "config.yml"

\* os.OpenFile(WritePath, os.O_WRONLY, os.ModeExclusive): no O_CREATE, so the
\* file must exist and be writable; the third argument is a permission used
\* only when a file is created, so nothing is locked.
OpenFile(files, path) == files[path].exists /\ files[path].writable

\* f.Write(b) on a descriptor opened without O_TRUNC, at offset 0: the bytes
\* past the end of b stay.
WriteAt0(old, b) == b \o SubSeq(old, Len(b) + 1, Len(old))

\* WriteToDisk (config.go:158-175).
WriteToDisk(cfg, files) ==
    IF ~OpenFile(files, WritePath) THEN [err |-> TRUE, fs |-> files]
    ELSE [err |-> FALSE,
          fs |-> [files EXCEPT ![WritePath].data = WriteAt0(@, Marshal(cfg))]]

\* SetSystemUser (config.go:144-153).
SetSystemUser(cfg, u, files) ==
    LET c2 == [cfg EXCEPT !.System =
                  <<[cfg.System[1] EXCEPT !.Username = u.Username,
                                          !.Uid = Atoi(u.Uid),
                                          !.Gid = Atoi(u.Gid)]>>]
        w == WriteToDisk(c2, files)
    IN  [c |-> c2, fs |-> w.fs, err |-> w.err]

\* user.Lookup: the account, the unknown-user error, or another error (the
\* user database cannot be read).
NoUser == [Username |-> <<>>, Uid |-> <<>>, Gid |-> <<>>]
Lookup(accounts, name, unavailable) ==
    IF unavailable THEN [err |-> "error", u |-> NoUser]
    ELSE IF \E a \in accounts : a.Username = name
    THEN [err |-> "none", u |-> CHOOSE a \in accounts : a.Username = name]
    ELSE [err |-> "unknown", u |-> NoUser]

\* err.(user.UnknownUserError) (config.go:124).
AnyErrorIsUnknownUser(err) == err # "none"
IsUnknownUserError(err) == err = "unknown"

\* json.NewDecoder(resp.Body).Decode(&record) (config.go:213-219): a body
\* that is not a JSON object of the right types is an error; a field the
\* object lacks keeps its zero value.
NoRecord == [Valid |-> FALSE, LicenseType |-> 0]
DecodeLicenseVerify(body) ==
    IF ~body.json THEN [err |-> TRUE, record |-> NoRecord]
    ELSE [err |-> FALSE,
          record |-> [Valid |-> IF body.valid = <<>> THEN FALSE ELSE body.valid[1],
                      LicenseType |-> IF body.licenseType = <<>> THEN 0
                                      ELSE body.licenseType[1]]]

\* The configuration CheckLicense leaves after the verify exchange
\* (config.go:202-221): the license is set only from a decoded response.
LicenseSetBeforeErrorCheck(cfg, transportErr, body) ==
    SetLicenseSettings(cfg, DecodeLicenseVerify(body).record.Valid,
                       DecodeLicenseVerify(body).record.LicenseType)
LicenseAfterVerify(cfg, transportErr, body) ==
    IF transportErr \/ DecodeLicenseVerify(body).err THEN cfg
    ELSE SetLicenseSettings(cfg, DecodeLicenseVerify(body).record.Valid,
                            DecodeLicenseVerify(body).record.LicenseType)

\* RequestNewLicense (config.go:289-295) with RequestDNSONLYLicense and
\* RequestTrialLicense (config.go:279-286): the type requestLicense is given.
RequestNewLicenseType(preferDNSOnly) == IF preferDNSOnly THEN DNSONLY ELSE TRIAL

\* main reads each flag's value before flag.Parse() runs
\* (cosmicpanel.go:14-18), so it holds the default whatever the command line.
FlagValue(default, given) == default
DefaultConfigPath == "config.yml"

(***************************************************************************)
(* The environment of one run: the files, the process environment, the    *)
(* accounts of the host, the network and the license server.              *)
(***************************************************************************)
Paths == {"config.yml", "alt.yml"}

EnvUserName == <<"C", "P", "_", "U", "S", "E", "R">>
AltUsername == <<"c", "p">>
\* The process environment: CP_USER set, or not set.
Environs == { {[name |-> EnvUserName, value |-> AltUsername]}, {} }

StoredConfiguration(id) ==
    [SetDefaults(ZeroConfiguration) EXCEPT
        !.System = <<[@[1] EXCEPT !.Uid = id, !.Gid = id]>>]

HeaderComment ==
    <<"#", " ", "c", "o", "s", "m", "i", "c", "p", "a", "n", "e", "l", " ",
      "d", "a", "e", "m", "o", "n", "\n">>
EnvUserRef == <<"$", "{", "C", "P", "_", "U", "S", "E", "R", "}">>

\* What a run wrote when the account had id 1000.
WrittenText == Marshal(StoredConfiguration(1000))
\* The same for id 999, under a comment an administrator added.
CommentedText == HeaderComment \o Marshal(StoredConfiguration(999))
\* A hand-written file: two sections, the user name taken from the environment.
HandWrittenText ==
    HeaderComment
    \o KeyLine(0, KeySystem)
    \o ScalarLine(2, KeyData, DefaultData)
    \o ScalarLine(2, KeyUsername, EnvUserRef)
    \o KeyLine(0, KeyPanel)
    \o ScalarLine(2, KeyPort, Itoa(DefaultPort))
\* A file that records a license.
LicensedText == Marshal(SetLicenseSettings(StoredConfiguration(999), TRUE, FULL))
\* A file with no system and no panel section.
MinimalText == <<"d", "e", "b", "u", "g", ":", " ", "t", "r", "u", "e", "\n">>
\* A file that is not a YAML mapping.
UnparsableText == <<"d", "e", "b", "u", "g", "\n">>

InitialFiles ==
    {NoFile, ReadOnlyFile(WrittenText)}
    \cup {File(t) : t \in {WrittenText, CommentedText, HandWrittenText,
                           LicensedText, MinimalText, UnparsableText}}
AltFiles == {NoFile, File(WrittenText), File(HandWrittenText)}

Account(name, id) == [Username |-> name, Uid |-> Itoa(id), Gid |-> Itoa(id)]
InitialAccounts ==
    { {}, {Account(DefaultUsername, 999)}, {Account(DefaultUsername, 1000)},
      {Account(AltUsername, 99)} }
\* The ids useradd --system may assign.
NewAccountIds == {99, 999}

\* GetOutboundIP (config.go:226-236): the local address, or "" with no route.
OutboundIPs == {"", "10.0.0.5"}

\* The bodies the license server may answer with: not JSON, or an object in
\* which each of the two fields is present or not.
MaxLicenseType == 4
Bodies ==
    [json : {TRUE}, valid : {<<>>, <<TRUE>>, <<FALSE>>},
     licenseType : {<<>>} \cup {<<t>> : t \in 0..MaxLicenseType}]
    \cup {[json |-> FALSE, valid |-> <<>>, licenseType |-> <<>>]}
NoBody == [json |-> FALSE, valid |-> <<>>, licenseType |-> <<>>]

(***************************************************************************)
(* State.                                                                  *)
(***************************************************************************)
VARIABLES
    fs,          \* the files: Paths -> file
    environ,     \* the process environment
    accounts,    \* the accounts of the host
    argv,        \* the command line: [config, debug, dnsonly]
    configPath,  \* main's configPath, debug and dnsonly
    debug,
    dnsonly,
    pc,          \* where the startup sequence is
    c,           \* the Configuration in memory
    snap,        \* c and fs when the operation in progress was invoked
    ensure,      \* the EnsureUser call: lookups, commands run, result
    lic,         \* the CheckLicense call: requests sent, result
    wr,          \* two process instances in WriteToDisk
    overlap      \* both instances held the file open at once

vars == <<fs, environ, accounts, argv, configPath, debug, dnsonly, pc, c, snap, ensure,
          lic, wr, overlap>>

NoEnsure ==
    [lookup1 |-> "", lookup2 |-> "", commands |-> 0, err |-> "",
     returned |-> FALSE, u |-> NoUser]
NoLic ==
    [ip |-> "", gets |-> 0, verify |-> "", body |-> NoBody, fallbacks |-> 0,
     posts |-> <<>>, postErr |-> FALSE]
Procs == {1, 2}
Idle == [p \in Procs |-> [pc |-> "idle", c |-> ZeroConfiguration, err |-> FALSE]]

InitEnv ==
    /\ fs \in [Paths -> InitialFiles]
    /\ fs["alt.yml"] \in AltFiles
    /\ environ \in Environs
    /\ accounts \in InitialAccounts
    /\ argv \in [config : Paths, debug : BOOLEAN, dnsonly : BOOLEAN]
    /\ pc = "start"
    /\ c = ZeroConfiguration
    /\ snap = [c |-> c, fs |-> fs]
    /\ ensure = NoEnsure
    /\ lic = NoLic
    /\ wr = Idle
    /\ overlap = FALSE

\* The daemon: main (cosmicpanel.go:13-51).
Init ==
    /\ InitEnv
    /\ configPath = FlagValue(DefaultConfigPath, argv.config)
    /\ debug = FlagValue(FALSE, argv.debug)
    /\ dnsonly = FlagValue(FALSE, argv.dnsonly)

\* Any caller of the package that runs the same sequence with its own inputs.
InitApi ==
    /\ InitEnv
    /\ configPath = argv.config
    /\ debug = argv.debug
    /\ dnsonly = argv.dnsonly

(***************************************************************************)
(* main (cosmicpanel.go:13-51), one action per step.  The process ends in *)
(* "done" (main returns), "panic" (a panic unwinds main) or "fatal"       *)
(* (log.Fatal has called os.Exit(1)).                                      *)
(***************************************************************************)
Ended == {"done", "panic", "fatal"}

\* c, err := config.ReadConfiguration(configPath); panic(err) on an error;
\* if debug { c.Debug = true }  (cosmicpanel.go:22-38).  SetDefaults is not
\* called.  ConfigureLogging builds a logger on stdout and changes nothing
\* of this state.
Main_ReadConfiguration ==
    /\ pc = "start"
    /\ LET r == ReadConfiguration(fs, configPath, environ)
           c2 == IF debug THEN [r.c EXCEPT !.Debug = TRUE] ELSE r.c
       IN  /\ pc' = IF r.err THEN "panic" ELSE "EnsureUser"
           /\ c' = IF r.err THEN c ELSE c2
           /\ snap' = [c |-> c', fs |-> fs]
    /\ UNCHANGED <<fs, environ, accounts, argv, configPath, debug, dnsonly, ensure, lic,
                   wr, overlap>>

\* How main goes on when EnsureUser returns (cosmicpanel.go:41-45):
\* zap.S().Panicw on an error.
AfterEnsureUser(err) == IF err = "none" THEN "CheckLicense" ELSE "panic"

\* The return of EnsureUser through SetSystemUser (config.go:123, 138).
ReturnSetSystemUser(u, e) ==
    LET s == SetSystemUser(c, u, fs)
        err == IF s.err THEN "write" ELSE "none"
    IN  /\ c' = s.c
        /\ fs' = s.fs
        /\ ensure' = [e EXCEPT !.returned = TRUE, !.u = u, !.err = err]
        /\ pc' = AfterEnsureUser(err)
        /\ snap' = IF err = "none" THEN [c |-> c', fs |-> fs'] ELSE snap

\* EnsureUser up to the end of its first branch (config.go:117-126).
\* c.System.Username on a nil System is a nil dereference: a runtime panic.
EnsureUser_Lookup ==
    /\ pc = "EnsureUser"
    /\ IF c.System = <<>>
       THEN /\ pc' = "panic"
            /\ ensure' = [ensure EXCEPT !.err = "nil"]
            /\ UNCHANGED <<c, fs, snap>>
       ELSE \E unavailable \in BOOLEAN :
              LET r == Lookup(accounts, c.System[1].Username, unavailable)
              IN  IF r.err = "none"
                  THEN ReturnSetSystemUser(r.u, [ensure EXCEPT !.lookup1 = r.err])
                  ELSE IF ~IsUnknownUserError(r.err)
                  THEN /\ pc' = AfterEnsureUser("lookup")
                       /\ ensure' = [ensure EXCEPT
                              !.lookup1 = r.err, !.returned = TRUE,
                              !.err = "lookup"]
                       /\ UNCHANGED <<c, fs, snap>>
                  ELSE /\ pc' = "useradd"
                       /\ ensure' = [ensure EXCEPT !.lookup1 = r.err]
                       /\ UNCHANGED <<c, fs, snap>>
    /\ UNCHANGED <<environ, accounts, argv, configPath, debug, dnsonly, lic, wr, overlap>>

\* useradd --system --no-create-home --shell /bin/false <name>
\* (config.go:128-133).  It fails for an empty name, for a name that exists,
\* and whenever the host refuses.
EnsureUser_Useradd ==
    /\ pc = "useradd"
    /\ \E refused \in BOOLEAN, id \in NewAccountIds :
         LET name == c.System[1].Username
             created == /\ ~refused
                        /\ name # <<>>
                        /\ ~\E a \in accounts : a.Username = name
         IN  /\ accounts' = IF created THEN accounts \cup {Account(name, id)}
                            ELSE accounts
             /\ ensure' = [ensure EXCEPT
                    !.commands = @ + 1,
                    !.returned = ~created,
                    !.err = IF created THEN "" ELSE "useradd"]
             /\ pc' = IF created THEN "lookup2" ELSE AfterEnsureUser("useradd")
    /\ UNCHANGED <<fs, environ, argv, configPath, debug, dnsonly, c, snap, lic, wr, overlap>>

\* The second lookup (config.go:135-139): any error is returned.
EnsureUser_Lookup2 ==
    /\ pc = "lookup2"
    /\ \E unavailable \in BOOLEAN :
         LET r == Lookup(accounts, c.System[1].Username, unavailable)
         IN  IF r.err = "none"
             THEN ReturnSetSystemUser(r.u, [ensure EXCEPT !.lookup2 = r.err])
             ELSE /\ pc' = AfterEnsureUser("lookup2")
                  /\ ensure' = [ensure EXCEPT
                         !.lookup2 = r.err, !.returned = TRUE, !.err = "lookup2"]
                  /\ UNCHANGED <<c, fs, snap>>
    /\ UNCHANGED <<environ, accounts, argv, configPath, debug, dnsonly, lic, wr, overlap>>

\* ip := GetOutboundIP(); if ip != "" { ... }  (config.go:186-188).
CheckLicense_GetOutboundIP ==
    /\ pc = "CheckLicense"
    /\ \E ip \in OutboundIPs :
         /\ lic' = [lic EXCEPT !.ip = ip]
         /\ pc' = IF ip = "" THEN "done" ELSE "verify"
    /\ UNCHANGED <<fs, environ, accounts, argv, configPath, debug, dnsonly, c, snap,
                   ensure, wr, overlap>>

\* Where CheckLicense goes after the verify exchange (config.go:202-221):
\* log.Fatal after a transport error ends the process, so the two
\* statements that follow it never run; log.Println after a decode error
\* returns, and RequestNewLicense(dnsonly) runs.
AfterVerify(transportErr, decodeErr) ==
    IF transportErr THEN "fatal"
    ELSE IF decodeErr THEN "requestLicense"
    ELSE "done"

\* The GET of the verify endpoint (config.go:189-221).  http.NewRequest
\* cannot fail on this URL: the method is valid and the address from
\* net.IP.String() parses.  The three "return false" statements are read as
\* "return": CheckLicense declares no result.
CheckLicense_Verify ==
    /\ pc = "verify"
    /\ \E transportErr \in BOOLEAN, body \in Bodies :
         /\ transportErr => body = NoBody
         /\ LET d == DecodeLicenseVerify(body)
            IN  /\ c' = LicenseAfterVerify(c, transportErr, body)
                /\ pc' = AfterVerify(transportErr, d.err)
                /\ lic' = [lic EXCEPT
                       !.gets = @ + 1,
                       !.body = body,
                       !.verify = IF transportErr THEN "transport"
                                  ELSE IF d.err THEN "body" ELSE "ok",
                       !.fallbacks =
                           IF AfterVerify(transportErr, d.err) = "requestLicense"
                           THEN @ + 1 ELSE @]
    /\ UNCHANGED <<fs, environ, accounts, argv, configPath, debug, dnsonly, snap, ensure,
                   wr, overlap>>

\* Where requestLicense goes after the POST (config.go:267-271): log.Fatal
\* after a transport error ends the process.
AfterRequest(transportErr) == IF transportErr THEN "fatal" ELSE "done"

\* RequestNewLicense(dnsonly) and requestLicense (config.go:245-295): with
\* an outbound address, one POST of {type, ip}; the response is not read.
RequestNewLicense ==
    /\ pc = "requestLicense"
    /\ \E ip \in OutboundIPs, transportErr \in BOOLEAN :
         /\ ip = "" => ~transportErr
         /\ lic' = [lic EXCEPT
                !.posts = IF ip = "" THEN @
                          ELSE Append(@, [type |-> RequestNewLicenseType(dnsonly),
                                          ip |-> ip]),
                !.postErr = transportErr]
         /\ pc' = IF ip = "" THEN "done" ELSE AfterRequest(transportErr)
    /\ UNCHANGED <<fs, environ, accounts, argv, configPath, debug, dnsonly, c, snap,
                   ensure, wr, overlap>>

Next ==
    \/ Main_ReadConfiguration
    \/ EnsureUser_Lookup
    \/ EnsureUser_Useradd
    \/ EnsureUser_Lookup2
    \/ CheckLicense_GetOutboundIP
    \/ CheckLicense_Verify
    \/ RequestNewLicense

Spec == Init /\ [][Next]_vars

\* A caller may apply the defaults between the load and EnsureUser.
Api_SetDefaults ==
    /\ pc = "EnsureUser"
    /\ c # SetDefaults(c)
    /\ c' = SetDefaults(c)
    /\ snap' = [c |-> c', fs |-> fs]
    /\ UNCHANGED <<fs, environ, accounts, argv, configPath, debug, dnsonly, pc, ensure,
                   lic, wr, overlap>>

NextApi == Next \/ Api_SetDefaults

SpecApi == InitApi /\ [][NextApi]_vars

(***************************************************************************)
(* Two process instances in WriteToDisk (config.go:158-175) on the same   *)
(* file, each with its own Configuration and its own file descriptor.     *)
(* Each system call is one step; write(2) on a regular file is atomic.    *)
(***************************************************************************)
ConcConfigurations ==
    { StoredConfiguration(999), StoredConfiguration(1000),
      SetLicenseSettings(StoredConfiguration(999), TRUE, FULL) }
ConcFiles == {NoFile, ReadOnlyFile(WrittenText), File(WrittenText), File(LicensedText)}

InitConc ==
    /\ fs \in [Paths -> ConcFiles]
    /\ fs["alt.yml"] = NoFile
    /\ environ = {}
    /\ accounts = {}
    /\ argv = [config |-> DefaultConfigPath, debug |-> FALSE, dnsonly |-> FALSE]
    /\ configPath = DefaultConfigPath
    /\ debug = FALSE
    /\ dnsonly = FALSE
    /\ pc = "start"
    /\ c = ZeroConfiguration
    /\ snap = [c |-> c, fs |-> fs]
    /\ ensure = NoEnsure
    /\ lic = NoLic
    /\ wr \in [Procs -> [pc : {"idle"}, c : ConcConfigurations, err : {FALSE}]]
    /\ overlap = FALSE

\* f, err := os.OpenFile("config.yml", os.O_WRONLY, os.ModeExclusive)
\* (config.go:159-162).
Write_Open(p) ==
    /\ wr[p].pc = "idle"
    /\ wr' = [wr EXCEPT ![p].pc = IF OpenFile(fs, WritePath) THEN "open"
                                  ELSE "returned",
                        ![p].err = ~OpenFile(fs, WritePath)]
    /\ overlap' = (overlap \/ \A q \in Procs : wr'[q].pc = "open")
    /\ UNCHANGED <<fs, environ, accounts, argv, configPath, debug, dnsonly, pc, c, snap,
                   ensure, lic>>

\* b, err := yaml.Marshal(&c); f.Write(b)  (config.go:165-172).
Write_Write(p) ==
    /\ wr[p].pc = "open"
    /\ fs' = [fs EXCEPT ![WritePath].data = WriteAt0(@, Marshal(wr[p].c))]
    /\ wr' = [wr EXCEPT ![p].pc = "written"]
    /\ UNCHANGED <<environ, accounts, argv, configPath, debug, dnsonly, pc, c, snap,
                   ensure, lic, overlap>>

\* The deferred f.Close() and return nil (config.go:163, 174).
Write_Return(p) ==
    /\ wr[p].pc = "written"
    /\ wr' = [wr EXCEPT ![p].pc = "returned"]
    /\ UNCHANGED <<fs, environ, accounts, argv, configPath, debug, dnsonly, pc, c, snap,
                   ensure, lic, overlap>>

NextConc == \E p \in Procs : Write_Open(p) \/ Write_Write(p) \/ Write_Return(p)

SpecConc == InitConc /\ [][NextConc]_vars

(***************************************************************************)
(* Properties.                                                             *)
(***************************************************************************)
\* What the file at a path holds, as ReadConfiguration would load it.
Stored(path) == ReadConfiguration(fs, path, environ)

VerifyFailed == lic.verify \in {"transport", "body"}

\* C1: whenever the verify exchange fails (the request cannot be sent or the
\* body cannot be decoded), RequestNewLicense has been invoked by the time
\* the run ends.
C1_FallbackOnEveryVerifyFailure ==
    (pc \in Ended /\ VerifyFailed) => lic.fallbacks >= 1

\* C2: after a successful verify the license of the response is in the
\* Configuration in memory and in the configuration file.
C2_VerifiedLicensePersisted ==
    (pc = "done" /\ lic.verify = "ok") =>
        /\ c.License = <<[ValidLicense |-> DecodeLicenseVerify(lic.body).record.Valid,
                          LicenseType |-> DecodeLicenseVerify(lic.body).record.LicenseType]>>
        /\ ~Stored(configPath).err
        /\ Stored(configPath).c.License = c.License

\* C3: with an outbound address and an unreachable license server, the run
\* sends exactly one POST, of type 3 with dnsonly and 4 without; and no run
\* sends more than one GET or more than one POST.
C3_OnePostWhenUnreachable ==
    /\ lic.gets <= 1
    /\ Len(lic.posts) <= 1
    /\ (pc \in Ended /\ lic.ip # "" /\ lic.verify = "transport") =>
           /\ Len(lic.posts) = 1
           /\ lic.posts[1].type = IF dnsonly THEN DNSONLY ELSE TRIAL

\* C4: whatever fails in the verify exchange or in the license request, the
\* run ends by main returning.
C4_LicenseErrorsNeverAbort ==
    (pc \in Ended /\ (VerifyFailed \/ lic.postErr)) => pc = "done"

\* C5: EnsureUser runs the creation command only after the unknown-user
\* error; when the lookup succeeds no command is run, and when it fails with
\* another error that error is returned with no command run and with the
\* Configuration and the files as they were.
C5_CreationOnlyForUnknownUser ==
    /\ ensure.lookup1 = "none" => ensure.commands = 0
    /\ ensure.commands > 0 => ensure.lookup1 = "unknown"
    /\ ensure.lookup1 = "error" =>
           /\ ensure.returned /\ ensure.err = "lookup"
           /\ ensure.commands = 0
           /\ c = snap.c /\ fs = snap.fs

C5_Witness ==
    ensure.lookup1 = "error" /\ ensure.returned /\ pc = "panic" /\ c.System # <<>>

\* C6: when EnsureUser has returned without error the file that was loaded
\* holds the uid and gid of the returned user; and when the write fails
\* EnsureUser returns an error.
C6_IdsDurableInLoadedFile ==
    /\ (ensure.returned /\ ensure.err = "none") =>
           /\ ~Stored(configPath).err
           /\ Stored(configPath).c.System # <<>>
           /\ Stored(configPath).c.System[1].Uid = Atoi(ensure.u.Uid)
           /\ Stored(configPath).c.System[1].Gid = Atoi(ensure.u.Gid)
    /\ (ensure.u # NoUser /\ ~OpenFile(fs, WritePath)) => ensure.err = "write"

\* C7: of two instances that were in WriteToDisk at once, exactly one
\* returns without error, and the file holds what that one wrote.
C7_ExactlyOneWriterSucceeds ==
    (overlap /\ \A p \in Procs : wr[p].pc = "returned") =>
        /\ Cardinality({p \in Procs : ~wr[p].err}) = 1
        /\ \E p \in Procs : ~wr[p].err /\ fs[WritePath].data = Marshal(wr[p].c)

\* C8: when EnsureUser is invoked the system and panel sections are not nil,
\* and CheckLicense is invoked only after EnsureUser returned without error.
C8_DefaultsBeforeEnsureUser ==
    /\ pc = "EnsureUser" => (c.System # <<>> /\ c.Panel # <<>>)
    /\ pc \in {"CheckLicense", "verify", "requestLicense"} =>
           (ensure.returned /\ ensure.err = "none")

\* C9: the license section changes only on a successful verify: with no
\* outbound address no GET and no POST is sent and the license is as it was;
\* after a failed verify it is as it was; and it is as it was in every state
\* in which a request has been sent.
C9_LicenseChangesOnlyOnSuccess ==
    /\ lic.verify # "ok" => c.License = snap.c.License
    /\ (pc = "done" /\ lic.ip = "") => (lic.gets = 0 /\ lic.posts = <<>>)
    /\ lic.posts # <<>> => c.License = snap.c.License

C9_Witness ==
    pc = "done" /\ lic.verify = "body" /\ lic.posts # <<>> /\ lic.body.json = FALSE

\* C10: when WriteToDisk has returned without error the file is exactly the
\* serialization of the Configuration in memory, and loading it gives that
\* Configuration.
C10_WriteThenReadRoundTrip ==
    (pc = "CheckLicense" /\ ensure.returned /\ ensure.err = "none") =>
        /\ fs[WritePath].data = Marshal(c)
        /\ ~Stored(WritePath).err
        /\ Stored(WritePath).c = c

=============================================================================
